---- MODULE Spec2Model ----
(***************************************************************************)
(* vkmark, src/vulkan_state.cpp: the bring-up of a VulkanState.            *)
(*                                                                         *)
(* The constructor runs four stages (create_instance,                      *)
(* choose_physical_device, create_device, create_command_pool); each may   *)
(* throw, which unwinds the members built so far.  The three owned native  *)
(* handles live in ManagedResource wrappers (managed_resource.h), which is *)
(* modelled from its specification, as is the order in which the members   *)
(* of VulkanState are destroyed (vulkan_state.h).                          *)
(***************************************************************************)
EXTENDS Integers, Sequences, FiniteSets, TLC

VARIABLES
    pc,                             \* position of the constructor / lifetime of the object
    error,                          \* the exception in flight or delivered to the caller
    stages_run,                     \* history: stages entered, in order
    stages_done,                    \* history: stages that returned normally, in order
    physical_devices,               \* local of choose_physical_device: the enumeration (line 69)
    vk_instance,                    \* ManagedResource<vk::Instance>
    vk_device,                      \* ManagedResource<vk::Device>
    vk_command_pool,                \* ManagedResource<vk::CommandPool>
    vk_physical_device,             \* vk::PhysicalDevice (NullDevice when unset)
    vk_graphics_queue_family_index, \* uint32_t
    vk_graphics_queue,              \* vk::Queue (NullQueue when unset)
    wsi_queue_family_indices,       \* what the WSI returned to create_device (line 104)
    queue_family_indices,           \* the same list after line 117, as the loop at line 120 reads it
    queue_create_infos,             \* the queue-create list the device was created from
    command_pool_queue_family,      \* the family the command pool was created for
    pending_destroy,                \* members still to be destroyed by unwinding / ~VulkanState
    native,                         \* native handle -> "none" | "live" | "destroyed"
    destroy_log,                    \* history: handles passed to a destroy callback, in order
    device_used_dead,               \* history: destroyCommandPool was called on a dead device
    wrappers                        \* free-standing ManagedResource objects (SpecWrappers)

progVars == <<pc, error, stages_run, stages_done, physical_devices, vk_instance, vk_device,
              vk_command_pool, vk_physical_device, vk_graphics_queue_family_index,
              vk_graphics_queue, wsi_queue_family_indices, queue_family_indices,
              queue_create_infos,
              command_pool_queue_family, pending_destroy, device_used_dead>>
vars == <<progVars, native, destroy_log, wrappers>>

----------------------------------------------------------------------------
(* Bounds of the model *)

MaxDevices == 2
MaxQueueFamilies == 3
MaxPres == 2
MaxWrappers == 3

SeqsUpTo(S, n) == UNION {[1..k -> S] : k \in 0..n}
Elements(seq) == {seq[i] : i \in DOMAIN seq}

----------------------------------------------------------------------------
(* The Vulkan objects the program sees *)

\* vk::QueueFamilyProperties, as far as line 80-81 reads it.
QueueFamilyProperties ==
    { [queueCount |-> 0, graphics |-> TRUE],
      [queueCount |-> 1, graphics |-> FALSE],
      [queueCount |-> 1, graphics |-> TRUE] }

\* Sum of the first n entries of the count vector c.
RECURSIVE SumTo(_, _)
SumTo(c, n) == IF n = 0 THEN 0 ELSE c[n] + SumTo(c, n - 1)

\* How many queue families each of n devices has: MaxQueueFamilies in total at most.
FamilyCounts(n) ==
    {c \in [1..n -> 0..MaxQueueFamilies] : SumTo(c, n) <= MaxQueueFamilies}

\* A physical device: the WSI's verdict on it (is_physical_device_supported)
\* and its queue family list (getQueueFamilyProperties).
PhysicalDevice(supported, queue_families) ==
    [supported |-> supported, queue_families |-> queue_families]

\* What instance().enumeratePhysicalDevices() may return: up to MaxDevices
\* devices with up to MaxQueueFamilies queue families between them.
Enumerations ==
    UNION { UNION { { [i \in 1..n |->
                        PhysicalDevice(s[i],
                            [j \in 1..c[i] |-> all[SumTo(c, i - 1) + j]])]
                      : s \in [1..n -> BOOLEAN],
                        all \in [1..SumTo(c, n) -> QueueFamilyProperties] }
                    : c \in FamilyCounts(n) }
            : n \in 0..MaxDevices }

NullDevice == [id |-> 0, supported |-> FALSE, queue_families |-> <<>>]
NullQueue == [family |-> -1, index |-> -1]
NoIndex == -1

Resources == {"instance", "device", "command_pool"}
NullHandle == "null"

----------------------------------------------------------------------------
(* ManagedResource<T>: a native handle bound to a destroy callback.  A     *)
(* wrapper is either empty or owns `raw`; only an owning wrapper invokes   *)
(* the callback.                                                           *)

EmptyResource == [raw |-> NullHandle, empty |-> TRUE]
ManagedResource(raw) == [raw |-> raw, empty |-> FALSE]

\* The handles the wrapper's destructor passes to its callback.
DestructorCalls(w) == IF w.empty THEN <<>> ELSE <<w.raw>>

\* Move construction: the new object takes the content, the source is emptied.
MoveConstructed(src) == [to |-> src, from |-> EmptyResource]

\* Move assignment: the old content of dst is destroyed, then as move construction.
MoveAssigned(dst, src) ==
    [to |-> src, from |-> EmptyResource, calls |-> DestructorCalls(dst)]

\* A statement that copies the temporary into the member and leaves the
\* temporary owning: both then run the callback.
AssignTemporary_Copy(member, raw) ==
    LET temp == ManagedResource(raw)
    IN  [member |-> temp, calls |-> DestructorCalls(member) \o DestructorCalls(temp)]

\* member = ManagedResource<T>{raw, callback};  the temporary is move-assigned
\* into the member and destroyed at the end of the statement.
AssignTemporary(member, raw) ==
    LET temp == ManagedResource(raw)
        m == MoveAssigned(member, temp)
    IN  [member |-> m.to, calls |-> m.calls \o DestructorCalls(m.from)]

\* The command pool's callback does nothing: the pool outlives the device.
DestroyCallback_PoolLeaks(h, nat) ==
    IF h = "command_pool" THEN nat ELSE [nat EXCEPT ![h] = "destroyed"]

\* The instance's callback does nothing: the instance is never destroyed.
DestroyCallback_InstanceLeaks(h, nat) ==
    IF h = "instance" THEN nat ELSE [nat EXCEPT ![h] = "destroyed"]

\* The three destroy callbacks: i.destroy(), d.destroy(),
\* this->device().destroyCommandPool(cp).
DestroyCallback(h, nat) == [nat EXCEPT ![h] = "destroyed"]

\* Runs the callbacks for `calls` in order; `dead` records a destroyCommandPool
\* issued against a device that is not live.
RECURSIVE RunDestructors(_, _, _)
RunDestructors(calls, nat, dead) ==
    IF calls = <<>>
    THEN [native |-> nat, dead |-> dead]
    ELSE RunDestructors(Tail(calls), DestroyCallback(Head(calls), nat),
                        dead \/ (Head(calls) = "command_pool" /\ nat["device"] # "live"))

\* How often a destroy callback ran for handle h.
DestroyCount(h) == Cardinality({i \in DOMAIN destroy_log : destroy_log[i] = h})

----------------------------------------------------------------------------
(* The constructor and its stages *)

\* A constructor that returns after create_device.
ConstructorStages_NoPool ==
    <<"create_instance", "choose_physical_device", "create_device">>

ConstructorStages ==
    <<"create_instance", "choose_physical_device", "create_device", "create_command_pool">>

AfterStage(stage) ==
    LET i == CHOOSE k \in DOMAIN ConstructorStages : ConstructorStages[k] = stage
    IN  IF i < Len(ConstructorStages) THEN ConstructorStages[i + 1] ELSE "constructed"

\* Members are destroyed in reverse order of declaration.
MemberDestructionOrder == <<"vk_command_pool", "vk_device", "vk_instance">>

\* The stage returns normally.
Return(stage) ==
    /\ pc' = AfterStage(stage)
    /\ stages_run' = Append(stages_run, stage)
    /\ stages_done' = Append(stages_done, stage)
    /\ UNCHANGED <<error, pending_destroy>>

\* The stage throws: the constructor is left and the members are unwound.
Throw(stage, what) ==
    /\ pc' = "unwinding"
    /\ error' = what
    /\ stages_run' = Append(stages_run, stage)
    /\ pending_destroy' = MemberDestructionOrder
    /\ UNCHANGED stages_done

CreateInstance ==
    /\ pc = "create_instance"
    /\ \E ok \in BOOLEAN :
        IF ok
        THEN LET a == AssignTemporary(vk_instance, "instance")
                 r == RunDestructors(a.calls, [native EXCEPT !["instance"] = "live"],
                                     device_used_dead)
             IN  /\ vk_instance' = a.member
                 /\ native' = r.native
                 /\ device_used_dead' = r.dead
                 /\ destroy_log' = destroy_log \o a.calls
                 /\ Return("create_instance")
        ELSE /\ Throw("create_instance", "NativeApiError")
             /\ UNCHANGED <<vk_instance, native, device_used_dead, destroy_log>>
    /\ UNCHANGED <<physical_devices, vk_device, vk_command_pool, vk_physical_device,
                   vk_graphics_queue_family_index, vk_graphics_queue,
                   wsi_queue_family_indices, queue_family_indices, queue_create_infos,
                   command_pool_queue_family, wrappers>>

\* The test of line 80-81 without the queue count.
IsGraphicsFamily_AnyCount(queue_family) == queue_family.graphics

IsGraphicsFamily(queue_family) ==
    queue_family.queueCount > 0 /\ queue_family.graphics

\* The inner loop: the index of the first graphics family, NoIndex if the loop
\* ends without a match.
RECURSIVE ScanQueueFamilies(_, _)
ScanQueueFamilies(queue_families, queue_index) ==
    IF queue_index >= Len(queue_families)
    THEN NoIndex
    ELSE IF IsGraphicsFamily(queue_families[queue_index + 1])
         THEN queue_index
         ELSE ScanQueueFamilies(queue_families, queue_index + 1)

\* The handle of the i-th enumerated device.
DeviceHandle(pds, i) ==
    [id |-> i, supported |-> pds[i].supported, queue_families |-> pds[i].queue_families]

\* The outer loop from device i on: the members as the loop leaves them.
RECURSIVE ScanPhysicalDevices(_, _)
ScanPhysicalDevices(pds, i) ==
    IF i > Len(pds)
    THEN [vk_physical_device |-> NullDevice, queue_index |-> NoIndex]
    ELSE IF ~pds[i].supported
         THEN ScanPhysicalDevices(pds, i + 1)
         ELSE LET queue_index == ScanQueueFamilies(pds[i].queue_families, 0)
              IN  IF queue_index # NoIndex
                  THEN [vk_physical_device |-> DeviceHandle(pds, i),
                        queue_index |-> queue_index]
                  ELSE ScanPhysicalDevices(pds, i + 1)

\* Line 95 with the test never true: the constructor goes on without a device.
NoDeviceChosen_Never(pd) == pd # pd

\* Line 95: !vk_physical_device
NoDeviceChosen(pd) == pd = NullDevice

ChoosePhysicalDevice ==
    /\ pc = "choose_physical_device"
    /\ \/ /\ Throw("choose_physical_device", "NativeApiError")
          /\ UNCHANGED <<physical_devices, vk_physical_device,
                         vk_graphics_queue_family_index>>
       \/ \E pds \in Enumerations :
            LET found == ScanPhysicalDevices(pds, 1)
            IN  /\ physical_devices' = pds
                /\ vk_physical_device' = found.vk_physical_device
                /\ IF NoDeviceChosen(found.vk_physical_device)
                   THEN /\ UNCHANGED vk_graphics_queue_family_index
                        /\ Throw("choose_physical_device", "NoSuitableDevice")
                   ELSE /\ vk_graphics_queue_family_index' = found.queue_index
                        /\ Return("choose_physical_device")
    /\ UNCHANGED <<vk_instance, vk_device, vk_command_pool, vk_graphics_queue,
                   wsi_queue_family_indices, queue_family_indices, queue_create_infos,
                   command_pool_queue_family, native, device_used_dead, destroy_log,
                   wrappers>>


\* What the WSI may return for the chosen device: indices of its queue families.
WsiQueueFamilyIndices(pd) == SeqsUpTo(0 .. (Len(pd.queue_families) - 1), MaxPres)

\* std::find(begin, end, value) == end
NotFound(indices, value) == \A i \in DOMAIN indices : indices[i] # value

\* Lines 112-117 without the std::find test.
MergeGraphicsIndex_Always(indices, graphics_index) == Append(indices, graphics_index)

\* Lines 112-117 with the graphics index put first.
MergeGraphicsIndex_Front(indices, graphics_index) ==
    IF NotFound(indices, graphics_index) THEN <<graphics_index>> \o indices ELSE indices

\* Lines 112-117: push_back the graphics index unless std::find finds it.
MergeGraphicsIndex(indices, graphics_index) ==
    IF NotFound(indices, graphics_index) THEN Append(indices, graphics_index) ELSE indices

priority == 1

\* Lines 119-127 with the family index used as the queue count.
QueueCreateInfos_CountIsIndex(indices) ==
    [i \in DOMAIN indices |->
        [queueFamilyIndex |-> indices[i], queueCount |-> indices[i], priority |-> priority]]

\* Lines 119-127: one vk::DeviceQueueCreateInfo per index.
QueueCreateInfos(indices) ==
    [i \in DOMAIN indices |->
        [queueFamilyIndex |-> indices[i], queueCount |-> 1, priority |-> priority]]

\* device().getQueue(family, index)
GetQueue(family, index) == [family |-> family, index |-> index]

CreateDevice ==
    /\ pc = "create_device"
    /\ \E wsi \in WsiQueueFamilyIndices(vk_physical_device), ok \in BOOLEAN :
        LET indices == MergeGraphicsIndex(wsi, vk_graphics_queue_family_index)
            infos == QueueCreateInfos(indices)
        IN  IF ok
            THEN LET a == AssignTemporary(vk_device, "device")
                     r == RunDestructors(a.calls, [native EXCEPT !["device"] = "live"],
                                         device_used_dead)
                 IN  /\ wsi_queue_family_indices' = wsi
                     /\ queue_family_indices' = indices
                     /\ queue_create_infos' = infos
                     /\ vk_device' = a.member
                     /\ native' = r.native
                     /\ device_used_dead' = r.dead
                     /\ destroy_log' = destroy_log \o a.calls
                     /\ vk_graphics_queue' = GetQueue(vk_graphics_queue_family_index, 0)
                     /\ Return("create_device")
            ELSE /\ Throw("create_device", "NativeApiError")
                 /\ UNCHANGED <<wsi_queue_family_indices, queue_family_indices,
                                queue_create_infos, vk_device, native, device_used_dead,
                                destroy_log, vk_graphics_queue>>
    /\ physical_devices' = <<>>
    /\ UNCHANGED <<vk_instance, vk_command_pool, vk_physical_device,
                   vk_graphics_queue_family_index, command_pool_queue_family, wrappers>>

\* Line 155 with the family after the graphics family.
CommandPoolQueueFamilyIndex_OffByOne == vk_graphics_queue_family_index + 1

\* Line 155: setQueueFamilyIndex(graphics_queue_family_index())
CommandPoolQueueFamilyIndex == vk_graphics_queue_family_index

CreateCommandPool ==
    /\ pc = "create_command_pool"
    /\ \E ok \in BOOLEAN :
        IF ok
        THEN LET a == AssignTemporary(vk_command_pool, "command_pool")
                 r == RunDestructors(a.calls, [native EXCEPT !["command_pool"] = "live"],
                                     device_used_dead)
             IN  /\ command_pool_queue_family' = CommandPoolQueueFamilyIndex
                 /\ vk_command_pool' = a.member
                 /\ native' = r.native
                 /\ device_used_dead' = r.dead
                 /\ destroy_log' = destroy_log \o a.calls
                 /\ Return("create_command_pool")
        ELSE /\ Throw("create_command_pool", "NativeApiError")
             /\ UNCHANGED <<command_pool_queue_family, vk_command_pool, native,
                            device_used_dead, destroy_log>>
    /\ UNCHANGED <<physical_devices, vk_instance, vk_device, vk_physical_device,
                   vk_graphics_queue_family_index, vk_graphics_queue,
                   wsi_queue_family_indices, queue_family_indices, queue_create_infos,
                   wrappers>>

\* The owner lets go of a constructed VulkanState: ~VulkanState() begins.
BeginDestroy ==
    /\ pc = "constructed"
    /\ pc' = "destroying"
    /\ pending_destroy' = MemberDestructionOrder
    /\ UNCHANGED <<error, stages_run, stages_done, physical_devices, vk_instance,
                   vk_device, vk_command_pool, vk_physical_device,
                   vk_graphics_queue_family_index, vk_graphics_queue,
                   wsi_queue_family_indices, queue_family_indices, queue_create_infos,
                   command_pool_queue_family, native, device_used_dead, destroy_log,
                   wrappers>>

Member(m) ==
    CASE m = "vk_instance" -> vk_instance
      [] m = "vk_device" -> vk_device
      [] m = "vk_command_pool" -> vk_command_pool

\* The next member's destructor runs, after a throw or in ~VulkanState().
DestroyNextMember ==
    /\ pc \in {"unwinding", "destroying"}
    /\ pending_destroy # <<>>
    /\ LET m == Head(pending_destroy)
           calls == DestructorCalls(Member(m))
           r == RunDestructors(calls, native, device_used_dead)
       IN  /\ vk_instance' = IF m = "vk_instance" THEN EmptyResource ELSE vk_instance
           /\ vk_device' = IF m = "vk_device" THEN EmptyResource ELSE vk_device
           /\ vk_command_pool' =
                 IF m = "vk_command_pool" THEN EmptyResource ELSE vk_command_pool
           /\ native' = r.native
           /\ device_used_dead' = r.dead
           /\ destroy_log' = destroy_log \o calls
    /\ pending_destroy' = Tail(pending_destroy)
    /\ pc' = IF Tail(pending_destroy) # <<>> THEN pc
             ELSE IF pc = "unwinding" THEN "failed" ELSE "destroyed"
    /\ UNCHANGED <<error, stages_run, stages_done, physical_devices, vk_physical_device,
                   vk_graphics_queue_family_index, vk_graphics_queue,
                   wsi_queue_family_indices, queue_family_indices, queue_create_infos,
                   command_pool_queue_family, wrappers>>

\* A free-standing ManagedResource object: not yet constructed ("unborn"),
\* "alive" or destroyed ("gone"); `moved` while it is in the moved-from state,
\* stale_calls counts the callbacks it invoked in that state.
Unborn ==
    [life |-> "unborn", raw |-> NullHandle, empty |-> TRUE, moved |-> FALSE, stale_calls |-> 0]

NoWrappers == [s \in 1..MaxWrappers |-> Unborn]

\* The shape of the state.
Wrapper == [raw : Resources \cup {NullHandle}, empty : BOOLEAN]
TypeOK ==
    /\ pc \in {"create_instance", "choose_physical_device", "create_device",
               "create_command_pool", "constructed", "unwinding", "failed",
               "destroying", "destroyed"}
    /\ error \in {"none", "NativeApiError", "NoSuitableDevice"}
    /\ stages_run \in SeqsUpTo(Elements(ConstructorStages), Len(ConstructorStages))
    /\ stages_done \in SeqsUpTo(Elements(ConstructorStages), Len(ConstructorStages))
    /\ physical_devices \in Enumerations
    /\ vk_instance \in Wrapper /\ vk_device \in Wrapper /\ vk_command_pool \in Wrapper
    /\ vk_physical_device = NullDevice \/
          (vk_physical_device.id \in 1..MaxDevices
             /\ Len(vk_physical_device.queue_families) <= MaxQueueFamilies)
    /\ vk_graphics_queue_family_index \in {NoIndex} \cup (0..(MaxQueueFamilies - 1))
    /\ vk_graphics_queue = NullQueue \/
          vk_graphics_queue \in [family : 0..(MaxQueueFamilies - 1), index : {0}]
    /\ wsi_queue_family_indices \in SeqsUpTo(0..(MaxQueueFamilies - 1), MaxPres)
    /\ queue_family_indices \in SeqsUpTo(0..(MaxQueueFamilies - 1), MaxPres + 1)
    /\ Len(queue_create_infos) <= MaxPres + 1
    /\ command_pool_queue_family \in {NoIndex} \cup (0..(MaxQueueFamilies - 1))
    /\ pending_destroy \in SeqsUpTo(Elements(MemberDestructionOrder), 3)
    /\ native \in [Resources -> {"none", "live", "destroyed"}]
    /\ destroy_log \in SeqsUpTo(Resources, 3)
    /\ device_used_dead \in BOOLEAN
    /\ DOMAIN wrappers = 1..MaxWrappers

Init ==
    /\ pc = ConstructorStages[1]
    /\ error = "none"
    /\ stages_run = <<>>
    /\ stages_done = <<>>
    /\ physical_devices = <<>>
    /\ vk_instance = EmptyResource
    /\ vk_device = EmptyResource
    /\ vk_command_pool = EmptyResource
    /\ vk_physical_device = NullDevice
    /\ vk_graphics_queue_family_index = NoIndex
    /\ vk_graphics_queue = NullQueue
    /\ wsi_queue_family_indices = <<>>
    /\ queue_family_indices = <<>>
    /\ queue_create_infos = <<>>
    /\ command_pool_queue_family = NoIndex
    /\ pending_destroy = <<>>
    /\ native = [h \in Resources |-> "none"]
    /\ destroy_log = <<>>
    /\ device_used_dead = FALSE
    /\ wrappers = NoWrappers

Next ==
    \/ CreateInstance
    \/ ChoosePhysicalDevice
    \/ CreateDevice
    \/ CreateCommandPool
    \/ BeginDestroy
    \/ DestroyNextMember

Spec == Init /\ [][Next]_vars

----------------------------------------------------------------------------
(* ManagedResource objects on their own: any order of construction, move,  *)
(* move assignment and destruction.                                        *)

Content(w) == [raw |-> w.raw, empty |-> w.empty]

\* Wrapper w with content c after invoking `calls`; moved-from iff `moved`.
Holding(w, c, calls, moved) ==
    [life |-> "alive", raw |-> c.raw, empty |-> c.empty, moved |-> moved,
     stale_calls |-> w.stale_calls + (IF w.moved THEN Len(calls) ELSE 0)]

Invoke(calls, nat) ==
    /\ native' = RunDestructors(calls, nat, FALSE).native
    /\ destroy_log' = destroy_log \o calls

\* ManagedResource<T> w;
WDefaultConstruct(s) ==
    /\ UNCHANGED progVars
    /\ wrappers[s].life = "unborn"
    /\ wrappers' = [wrappers EXCEPT ![s] = Holding(@, EmptyResource, <<>>, FALSE)]
    /\ UNCHANGED <<native, destroy_log>>

\* ManagedResource<T> w{raw, callback};
WConstruct(s, h) ==
    /\ UNCHANGED progVars
    /\ wrappers[s].life = "unborn"
    /\ native[h] = "none"
    /\ wrappers' = [wrappers EXCEPT ![s] = Holding(@, ManagedResource(h), <<>>, FALSE)]
    /\ native' = [native EXCEPT ![h] = "live"]
    /\ UNCHANGED destroy_log

\* ManagedResource<T> d{std::move(s)};
WMoveConstruct(d, s) ==
    /\ UNCHANGED progVars
    /\ wrappers[d].life = "unborn"
    /\ wrappers[s].life = "alive"
    /\ LET m == MoveConstructed(Content(wrappers[s]))
       IN  wrappers' = [wrappers EXCEPT ![d] = Holding(@, m.to, <<>>, FALSE),
                                        ![s] = Holding(@, m.from, <<>>, TRUE)]
    /\ UNCHANGED <<native, destroy_log>>

\* d = std::move(s);
WMoveAssign(d, s) ==
    /\ UNCHANGED progVars
    /\ d # s
    /\ wrappers[d].life = "alive"
    /\ wrappers[s].life = "alive"
    /\ LET m == MoveAssigned(Content(wrappers[d]), Content(wrappers[s]))
       IN  /\ wrappers' = [wrappers EXCEPT ![d] = Holding(@, m.to, m.calls, FALSE),
                                           ![s] = Holding(@, m.from, <<>>, TRUE)]
           /\ Invoke(m.calls, native)

\* d = ManagedResource<T>{raw, callback};   as in lines 62, 145 and 158
WAssignTemporary(d, h) ==
    /\ UNCHANGED progVars
    /\ wrappers[d].life = "alive"
    /\ native[h] = "none"
    /\ LET a == AssignTemporary(Content(wrappers[d]), h)
       IN  /\ wrappers' = [wrappers EXCEPT ![d] = Holding(@, a.member, a.calls, FALSE)]
           /\ Invoke(a.calls, [native EXCEPT ![h] = "live"])

\* ~ManagedResource()
WDestroy(s) ==
    /\ UNCHANGED progVars
    /\ wrappers[s].life = "alive"
    /\ LET calls == DestructorCalls(Content(wrappers[s]))
       IN  /\ wrappers' = [wrappers EXCEPT ![s] =
                             [Holding(@, EmptyResource, calls, @.moved)
                                EXCEPT !.life = "gone"]]
           /\ Invoke(calls, native)

NextWrappers ==
    \/ \E s \in 1..MaxWrappers : WDefaultConstruct(s)
    \/ \E s \in 1..MaxWrappers, h \in Resources : WConstruct(s, h)
    \/ \E d, s \in 1..MaxWrappers : WMoveConstruct(d, s)
    \/ \E d, s \in 1..MaxWrappers : WMoveAssign(d, s)
    \/ \E d \in 1..MaxWrappers, h \in Resources : WAssignTemporary(d, h)
    \/ \E s \in 1..MaxWrappers : WDestroy(s)

SpecWrappers == Init /\ [][NextWrappers]_vars

----------------------------------------------------------------------------
(* The properties *)

\* A queue family a graphics queue can come from, and a device that has one
\* and that the WSI supports.
GraphicsCapable(queue_family) == queue_family.queueCount > 0 /\ queue_family.graphics
Suitable(device) ==
    /\ device.supported
    /\ \E k \in DOMAIN device.queue_families : GraphicsCapable(device.queue_families[k])

NoDuplicates(seq) == \A i, j \in DOMAIN seq : i # j => seq[i] # seq[j]
StagesInOrder ==
    <<"create_instance", "choose_physical_device", "create_device", "create_command_pool">>
IsPrefix(a, b) == Len(a) <= Len(b) /\ \A i \in DOMAIN a : a[i] = b[i]

\* C1: when choose_physical_device has succeeded, the chosen device is the
\* first enumerated device that the WSI supports and that has a queue family
\* with queueCount > 0 and the graphics bit, and the recorded index is the
\* lowest index of such a family on it; every earlier device lacks one of the two.
C1_FirstSuitableDeviceChosen ==
    pc = "create_device" =>
        LET i == vk_physical_device.id
            families == vk_physical_device.queue_families
            g == vk_graphics_queue_family_index
        IN  /\ i \in DOMAIN physical_devices
            /\ physical_devices[i].supported = vk_physical_device.supported
            /\ physical_devices[i].queue_families = families
            /\ Suitable(physical_devices[i])
            /\ \A j \in 1..(i - 1) : ~Suitable(physical_devices[j])
            /\ g + 1 \in DOMAIN families
            /\ GraphicsCapable(families[g + 1])
            /\ \A k \in 1..g : ~GraphicsCapable(families[k])

\* An unsupported device that has a graphics family was passed over, and on
\* the chosen device family 0 has the graphics bit but no queue.
C1_Witness ==
    /\ pc = "create_device"
    /\ vk_physical_device.id = 2
    /\ ~physical_devices[1].supported
    /\ \E k \in DOMAIN physical_devices[1].queue_families :
          GraphicsCapable(physical_devices[1].queue_families[k])
    /\ vk_graphics_queue_family_index = 1
    /\ physical_devices[2].queue_families[1].graphics

\* C2: if the enumeration (empty or not) holds no supported device with a
\* graphics family, construction fails with the no-suitable-device error,
\* create_device and create_command_pool never run, and once the failure has
\* unwound no Instance, Device or CommandPool is allocated.
C2_NoSuitableDeviceFails ==
    ( /\ stages_run # <<>>
      /\ stages_run[Len(stages_run)] = "choose_physical_device"
      /\ error # "NativeApiError"
      /\ \A i \in DOMAIN physical_devices : ~Suitable(physical_devices[i]) )
    =>
    ( /\ error = "NoSuitableDevice"
      /\ pc \in {"unwinding", "failed"}
      /\ "create_device" \notin Elements(stages_run)
      /\ "create_command_pool" \notin Elements(stages_run)
      /\ native["device"] = "none"
      /\ native["command_pool"] = "none"
      /\ pc = "failed" => /\ native["instance"] = "destroyed"
                          /\ DestroyCount("instance") = 1
                          /\ vk_instance.empty /\ vk_device.empty /\ vk_command_pool.empty )

\* Two unsuitable devices were enumerated and the failure has unwound.
C2_Witness ==
    /\ pc = "failed"
    /\ error = "NoSuitableDevice"
    /\ Len(physical_devices) = 2
    /\ physical_devices[1].supported
    /\ ~physical_devices[2].supported
    /\ native["instance"] = "destroyed"

\* C3 as stated: the list create_device builds the queue-create list from has
\* no duplicate index, whatever list the WSI returned.
C3_NoDuplicateFamilies ==
    "create_device" \in Elements(stages_done) => NoDuplicates(queue_family_indices)

\* C3 amended: create_device adds no duplicate.  Two equal entries of the
\* list it builds the queue-create list from are two equal entries of the list
\* the WSI returned; so if the WSI's list has no duplicate index, neither has
\* the final list.
C3_NoDuplicatesAdded ==
    "create_device" \in Elements(stages_done) =>
        LET w == wsi_queue_family_indices
            q == queue_family_indices
        IN  /\ \A i, j \in DOMAIN q :
                  (i # j /\ q[i] = q[j]) =>
                      (i \in DOMAIN w /\ j \in DOMAIN w /\ w[i] = w[j])
            /\ NoDuplicates(w) => NoDuplicates(q)

\* The WSI returned two distinct families, one of them the graphics family.
C3_Witness ==
    /\ "create_device" \in Elements(stages_done)
    /\ Len(wsi_queue_family_indices) = 2
    /\ NoDuplicates(wsi_queue_family_indices)
    /\ vk_graphics_queue_family_index \in Elements(wsi_queue_family_indices)
    /\ queue_family_indices = wsi_queue_family_indices

\* C4: the final list contains the graphics family index; it is the WSI's
\* list followed by the graphics index when the WSI's list lacks it (also
\* when that list is empty), and the WSI's list itself otherwise; either way
\* the WSI's indices are a prefix of it in their order.
C4_GraphicsFamilyMerged ==
    "create_device" \in Elements(stages_done) =>
        LET g == vk_graphics_queue_family_index
            w == wsi_queue_family_indices
            q == queue_family_indices
        IN  /\ g \in Elements(q)
            /\ IsPrefix(w, q)
            /\ g \notin Elements(w) => (Len(q) = Len(w) + 1 /\ q[Len(q)] = g)
            /\ g \in Elements(w) => q = w

\* The WSI asked for a family other than the graphics family.
C4_Witness ==
    /\ "create_device" \in Elements(stages_done)
    /\ Len(wsi_queue_family_indices) = 1
    /\ wsi_queue_family_indices[1] # vk_graphics_queue_family_index
    /\ queue_family_indices =
          <<wsi_queue_family_indices[1], vk_graphics_queue_family_index>>

\* C5: the CommandPool is destroyed before the Device and the Device before
\* the Instance: the Device is never destroyed while the CommandPool is live,
\* the Instance never while the Device is live, destroyCommandPool is never
\* called on a dead Device, and a constructed context torn down has destroyed
\* exactly CommandPool, Device, Instance in that order.
C5_ReverseDestruction ==
    /\ native["device"] = "destroyed" => native["command_pool"] # "live"
    /\ native["instance"] = "destroyed" => native["device"] # "live"
    /\ ~device_used_dead
    /\ pc = "destroyed" => destroy_log = <<"command_pool", "device", "instance">>

\* A fully constructed context has been torn down.
C5_Witness ==
    /\ pc = "destroyed"
    /\ Len(stages_done) = 4
    /\ destroy_log = <<"command_pool", "device", "instance">>

\* C6: when a stage fails no later stage runs, what the earlier stages
\* created is destroyed exactly once, nothing stays allocated, and the
\* failed stage's handle never existed and its callback never ran.
C6_FailureReleasesAll ==
    /\ \A h \in Resources : DestroyCount(h) <= 1
    /\ error # "none" =>
          /\ pc \in {"unwinding", "failed"}
          /\ IsPrefix(stages_done, StagesInOrder)
          /\ stages_run = SubSeq(StagesInOrder, 1, Len(stages_done) + 1)
          /\ native["instance"] # "none" <=> "create_instance" \in Elements(stages_done)
          /\ native["device"] # "none" <=> "create_device" \in Elements(stages_done)
          /\ native["command_pool"] = "none"
    /\ pc = "failed" =>
          /\ \A h \in Resources :
                /\ native[h] # "live"
                /\ native[h] = "destroyed" => DestroyCount(h) = 1
                /\ native[h] = "none" => DestroyCount(h) = 0
          /\ vk_instance.empty /\ vk_device.empty /\ vk_command_pool.empty

\* create_command_pool failed; Device and Instance were released.
C6_Witness ==
    /\ pc = "failed"
    /\ stages_run[Len(stages_run)] = "create_command_pool"
    /\ native = [h \in Resources |->
                    IF h = "command_pool" THEN "none" ELSE "destroyed"]
    /\ destroy_log = <<"device", "instance">>

\* The alive wrappers that own handle h.
Owners(h) ==
    {s \in DOMAIN wrappers :
        wrappers[s].life = "alive" /\ ~wrappers[s].empty /\ wrappers[s].raw = h}

\* C7: over any order of construction, move, move assignment and destruction
\* of wrappers, the callback of a wrapped handle has run once when no wrapper
\* owns the handle any more and not at all while one does, exactly one wrapper
\* owns it until then, and no wrapper runs a callback while moved from.
C7_CallbackExactlyOnce ==
    /\ \A h \in Resources :
          /\ native[h] = "none" => (DestroyCount(h) = 0 /\ Owners(h) = {})
          /\ native[h] # "none" => DestroyCount(h) + Cardinality(Owners(h)) = 1
          /\ native[h] = "destroyed" <=> DestroyCount(h) = 1
    /\ \A s \in DOMAIN wrappers :
          /\ wrappers[s].stale_calls = 0
          /\ wrappers[s].moved => wrappers[s].empty

\* A wrapper was filled from a temporary or a constructor, moved from and
\* destroyed; the wrapper it was moved into was destroyed after it; every
\* handle was created and its callback ran once.
C7_Witness ==
    /\ \E d, s \in DOMAIN wrappers :
          /\ d # s
          /\ wrappers[s].life = "gone" /\ wrappers[s].moved
          /\ wrappers[d].life = "gone" /\ ~wrappers[d].moved
    /\ \A h \in Resources : DestroyCount(h) = 1
    /\ \A s \in DOMAIN wrappers : wrappers[s].life = "gone"

\* C8: the stages run in the order create_instance, choose_physical_device,
\* create_device, create_command_pool, each only after the one before it has
\* returned normally, and the caller gets a context only when all four have:
\* then Instance, PhysicalDevice, Device, graphics Queue and CommandPool are
\* all set.
C8_StagesInOrder ==
    /\ IsPrefix(stages_done, StagesInOrder)
    /\ IsPrefix(stages_run, StagesInOrder)
    /\ Len(stages_run) \in {Len(stages_done), Len(stages_done) + 1}
    /\ Len(stages_run) = Len(stages_done) + 1 => error # "none"
    /\ pc \in Elements(StagesInOrder) =>
          (error = "none" /\ pc = StagesInOrder[Len(stages_done) + 1])
    /\ pc = "constructed" =>
          /\ stages_done = StagesInOrder
          /\ error = "none"
          /\ \A h \in Resources : native[h] = "live"
          /\ vk_instance = ManagedResource("instance")
          /\ vk_device = ManagedResource("device")
          /\ vk_command_pool = ManagedResource("command_pool")
          /\ vk_physical_device # NullDevice
          /\ vk_graphics_queue # NullQueue
    /\ (\E h \in Resources : native[h] = "live") =>
          pc \notin {"failed", "destroyed"}

\* The constructor has returned a context.
C8_Witness ==
    /\ pc = "constructed"
    /\ stages_done = StagesInOrder
    /\ \A h \in Resources : native[h] = "live"

\* C9: the queue-create list has one entry per element of the final family
\* list, in order, each with queue count 1 and priority 1.0; for WSI families
\* [1] and graphics family 2 it is two entries, for families 1 and 2, and for
\* WSI families [2] and graphics family 2 one entry, for family 2.
C9_OneQueuePerFamily ==
    "create_device" \in Elements(stages_done) =>
        /\ Len(queue_create_infos) = Len(queue_family_indices)
        /\ \A i \in DOMAIN queue_create_infos :
              /\ queue_create_infos[i].queueFamilyIndex = queue_family_indices[i]
              /\ queue_create_infos[i].queueCount = 1
              /\ queue_create_infos[i].priority = 1
        /\ (wsi_queue_family_indices = <<1>> /\ vk_graphics_queue_family_index = 2) =>
              /\ Len(queue_create_infos) = 2
              /\ queue_create_infos[1].queueFamilyIndex = 1
              /\ queue_create_infos[2].queueFamilyIndex = 2
        /\ (wsi_queue_family_indices = <<2>> /\ vk_graphics_queue_family_index = 2) =>
              /\ Len(queue_create_infos) = 1
              /\ queue_create_infos[1].queueFamilyIndex = 2

\* WSI families [1], graphics family 2: two entries.
C9_Witness ==
    /\ "create_device" \in Elements(stages_done)
    /\ wsi_queue_family_indices = <<1>>
    /\ vk_graphics_queue_family_index = 2
    /\ Len(queue_create_infos) = 2

\* The graphics family index is written by choose_physical_device alone.
GraphicsIndexKept ==
    "choose_physical_device" \in Elements(stages_done) =>
        vk_graphics_queue_family_index' = vk_graphics_queue_family_index

GraphicsFamilyUsed ==
    pc = "constructed" =>
        LET g == vk_graphics_queue_family_index
            families == vk_physical_device.queue_families
        IN  /\ vk_graphics_queue = [family |-> g, index |-> 0]
            /\ \E i \in DOMAIN queue_create_infos :
                  /\ queue_create_infos[i].queueFamilyIndex = g
                  /\ queue_create_infos[i].queueCount > 0
            /\ command_pool_queue_family = g
            /\ g + 1 \in DOMAIN families
            /\ families[g + 1].queueCount > 0
            /\ families[g + 1].graphics

\* C10: no stage after choose_physical_device changes the graphics queue
\* family index; in a constructed context the graphics queue is queue 0 of
\* that family, the device was created with a queue of that family, the
\* command pool is bound to that family, and on the chosen physical device
\* the family has queueCount > 0 and the graphics bit.
C10_GraphicsFamilyConsistent == []GraphicsFamilyUsed /\ [][GraphicsIndexKept]_vars

\* A context whose graphics family is not family 0 and whose WSI asked for
\* another family.
C10_Witness ==
    /\ pc = "constructed"
    /\ vk_graphics_queue_family_index = 1
    /\ wsi_queue_family_indices = <<0>>
    /\ command_pool_queue_family = 1

====
